---- MODULE Spec2Model ----
(***************************************************************************)
(* Track safety simulator ("src/Python/original script/train.py").         *)
(*                                                                         *)
(* The script is one sequential program: a setup loop over the train       *)
(* dictionaries, a while loop over one-minute ticks, and a final print.    *)
(*                                                                         *)
(* Arithmetic.  The script computes with Python floats (kilometres and     *)
(* hours).  The model computes the same quantities exactly, as integers:   *)
(*   - times are minutes since midnight of the parsed day;                 *)
(*   - positions, lengths and gaps are in units of 1/60 metre, so that     *)
(*     speed [km/h] * elapsed [min] / 60 is the integer speed*elapsed*1000;*)
(*   - an arrival time dep + distance/speed hours is the exact rational    *)
(*     num/den minutes.                                                    *)
(* The float results coincide with the exact ones for every input used     *)
(* here (the outputs of the script on the hardcoded configuration are      *)
(* reproduced digit for digit).                                            *)
(***************************************************************************)
EXTENDS Integers, Sequences, FiniteSets, TLC

VARIABLES
    trains,         \* list of train dicts (train.py:4-9, extended by 18-21)
    SAFE_DISTANCE,  \* metres (train.py:12)
    CROSSINGS,      \* list of crossing positions in km (train.py:15)
    pc,             \* "setup" | "loop" | "done" | "error"
    error,          \* the uncaught exception that ended the run, or NoError
    current_time,   \* minutes since midnight (train.py:25, 54)
    end_time,       \* rational [num, den], minutes since midnight (train.py:26)
    positions,      \* the snapshot of the tick evaluated last (train.py:31-37)
    train_names,    \* list(positions.keys()) of that tick (train.py:40)
    checks,         \* the pair evaluations of that tick (train.py:41-52)
    warnings,       \* the warning lines printed so far (train.py:51-52)
    completed       \* number of "Simulation complete." lines printed (train.py:56)

vars == <<trains, SAFE_DISTANCE, CROSSINGS, pc, error, current_time, end_time,
          positions, train_names, checks, warnings, completed>>

----------------------------------------------------------------------------
(* Units *)

\* timedelta(minutes=1): the simulation step, in minutes
step == 1

\* 1 km in units of 1/60 m
KM == 60000

\* 1 m in units of 1/60 m
METRE == 60

\* the crossing tolerance 0.01 km, in units of 1/60 m
TOLERANCE == 600

Abs(x) == IF x < 0 THEN -x ELSE x

----------------------------------------------------------------------------
(* datetime.strptime(s, "%H:%M") on a string given as its list of          *)
(* characters: one or two digits, a colon, one or two digits, the hour at  *)
(* most 23 and the minute at most 59.  The result is the number of minutes *)
(* since midnight; BadTime stands for the ValueError.                      *)

Digits == {"0", "1", "2", "3", "4", "5", "6", "7", "8", "9"}

DigitVal(c) ==
    CASE c = "0" -> 0 [] c = "1" -> 1 [] c = "2" -> 2 [] c = "3" -> 3
      [] c = "4" -> 4 [] c = "5" -> 5 [] c = "6" -> 6 [] c = "7" -> 7
      [] c = "8" -> 8 [] c = "9" -> 9

BadTime == -1

IsNumber(s) ==
    /\ Len(s) \in {1, 2}
    /\ \A k \in 1..Len(s) : s[k] \in Digits

NumberVal(s) ==
    IF Len(s) = 1 THEN DigitVal(s[1]) ELSE 10 * DigitVal(s[1]) + DigitVal(s[2])

strptime(s) ==
    LET colons == {k \in 1..Len(s) : s[k] = ":"}
    IN  IF Cardinality(colons) # 1 THEN BadTime
        ELSE LET p == CHOOSE k \in colons : TRUE
                 hh == SubSeq(s, 1, p - 1)
                 mm == SubSeq(s, p + 1, Len(s))
             IN  IF /\ IsNumber(hh) /\ IsNumber(mm)
                    /\ NumberVal(hh) <= 23 /\ NumberVal(mm) <= 59
                 THEN 60 * NumberVal(hh) + NumberVal(mm)
                 ELSE BadTime

----------------------------------------------------------------------------
(* Rationals num/den with den > 0, for arrival times                       *)

RatLeq(a, b) == a.num * b.den <= b.num * a.den

\* an integer time t <= the rational r
IntLeqRat(t, r) == t * r.den <= r.num

\* departure_time + timedelta(hours = distance / speed), speed # 0
ArrivalTime(dep, distance, speed) ==
    IF speed > 0
    THEN [num |-> dep * speed + 60 * distance, den |-> speed]
    ELSE [num |-> dep * (-speed) - 60 * distance, den |-> -speed]

\* faulty variant of TrainLength: the car length is left out
TrainLengthCarsOnly(cars, car_length) == cars * METRE

\* train["cars"] * train["car_length"] / 1000, in units of 1/60 m
TrainLength(cars, car_length) == cars * car_length * METRE

----------------------------------------------------------------------------
(* Output formatting *)

\* current_time.strftime('%H:%M'): hour and minute of the day
strftime(t) == <<(t % 1440) \div 60, t % 60>>

\* f"{gap*1000:.1f}": the gap in tenths of a metre, rounded to nearest.
\* g is in units of 1/60 m, so g/6 is in tenths of a metre; g is even for
\* integer inputs, so no tie occurs.
FormatGap(g) == (2 * g + 6) \div 12

----------------------------------------------------------------------------
(* Setup: train.py:18-26 *)

NoError == [type |-> "none", message |-> <<>>]

\* the exception, if any, that lines 19-21 raise for one train
SetupException(train) ==
    IF strptime(train.departure) = BadTime
    THEN [type |-> "ValueError",
          message |-> <<"time data does not match format", train.departure>>]
    ELSE IF train.speed = 0
    THEN [type |-> "ZeroDivisionError", message |-> <<"division by zero">>]
    ELSE NoError

\* lines 19-21 for one train: the dict with its three derived keys
Derive(train) ==
    LET dep == strptime(train.departure)
    IN  train @@ [departure_time |-> dep,
                  arrival_time   |-> ArrivalTime(dep, train.distance, train.speed),
                  length         |-> TrainLength(train.cars, train.car_length)]

\* min(train["departure_time"] for train in trains)
MinDeparture(ts) ==
    CHOOSE d \in {ts[i].departure_time : i \in 1..Len(ts)} :
        \A i \in 1..Len(ts) : d <= ts[i].departure_time

\* max(train["arrival_time"] for train in trains)
MaxArrival(ts) ==
    CHOOSE a \in {ts[i].arrival_time : i \in 1..Len(ts)} :
        \A i \in 1..Len(ts) : RatLeq(ts[i].arrival_time, a)

Setup ==
    /\ pc = "setup"
    /\ LET failing == {i \in 1..Len(trains) : SetupException(trains[i]) # NoError}
       IN  IF failing # {}
           THEN LET k == CHOOSE i \in failing : \A m \in failing : i <= m
                IN  /\ trains' = [i \in 1..Len(trains) |->
                                   IF i < k THEN Derive(trains[i]) ELSE trains[i]]
                    /\ error' = SetupException(trains[k])
                    /\ pc' = "error"
                    /\ UNCHANGED <<current_time, end_time>>
           ELSE LET ts == [i \in 1..Len(trains) |-> Derive(trains[i])]
                IN  /\ trains' = ts
                    /\ current_time' = MinDeparture(ts)
                    /\ end_time' = MaxArrival(ts)
                    /\ pc' = "loop"
                    /\ UNCHANGED error
    /\ UNCHANGED <<SAFE_DISTANCE, CROSSINGS, positions, train_names, checks,
                   warnings, completed>>

----------------------------------------------------------------------------
(* One tick: train.py:30-54 *)

\* faulty variant of LoopCondition: the last tick is left out
LoopConditionStrict(clock, last) == clock * last.den < last.num

\* line 30: while current_time <= end_time
LoopCondition(clock, last) == IntLeqRat(clock, last)

\* line 33: current_time >= departure_time and current_time <= arrival_time
IsActive(train, clock) ==
    /\ clock >= train.departure_time
    /\ IntLeqRat(clock, train.arrival_time)

\* lines 35-36: speed * (elapsed seconds / 3600) km, in units of 1/60 m
DistanceTraveled(train, clock) ==
    train.speed * (clock - train.departure_time) * 1000

\* the indices (in list order) of the trains that line 33 lets through
ActiveIndices(clock) ==
    SelectSeq([i \in 1..Len(trains) |-> i],
              LAMBDA i : IsActive(trains[i], clock))

\* lines 31-37: the dict positions, keyed by train name
Snapshot(clock) ==
    LET act == ActiveIndices(clock)
    IN  [n \in {trains[act[k]].name : k \in 1..Len(act)} |->
            LET i == CHOOSE i \in {act[k] : k \in 1..Len(act)} : trains[i].name = n
            IN  DistanceTraveled(trains[i], clock)]

\* line 40: list(positions.keys()), in insertion order
TrainNames(clock) ==
    LET act == ActiveIndices(clock)
    IN  [k \in 1..Len(act) |-> trains[act[k]].name]

\* faulty variant of Pairs: the same pairs, enumerated from the end
ReversedPairs(n) ==
    SelectSeq([k \in 1..(n * n) |-> <<n - ((k - 1) \div n), n - ((k - 1) % n)>>],
              LAMBDA p : p[1] < p[2])

\* lines 41-42: the index pairs (i, j), i < j < n, in loop order
Pairs(n) ==
    SelectSeq([k \in 1..(n * n) |-> <<((k - 1) \div n) + 1, ((k - 1) % n) + 1>>],
              LAMBDA p : p[1] < p[2])

\* line 46: trains[i]["length"] + trains[j]["length"], where i and j are the
\* indices into train_names
PairLength(i, j) == trains[i].length + trains[j].length

\* faulty variant of Gap: the train lengths are forgotten
GapWithoutLengths(p1, p2, len) == Abs(p1 - p2)

\* line 46
Gap(p1, p2, len) == Abs(p1 - p2) - len

\* line 49
near_crossing(p1, p2, cs) ==
    \E k \in 1..Len(cs) :
        /\ Abs(p1 - cs[k] * KM) < TOLERANCE
        /\ Abs(p2 - cs[k] * KM) < TOLERANCE

\* faulty variant of ShouldWarn: the crossing exemption is dropped
WarnIgnoringCrossing(gap, near, safe) == gap < safe * METRE

\* faulty variant of ShouldWarn: the comparison is not strict
WarnNonStrict(gap, near, safe) == gap <= safe * METRE /\ ~near

\* line 50: gap * 1000 < SAFE_DISTANCE and not near_crossing
ShouldWarn(gap, near, safe) == gap < safe * METRE /\ ~near

\* lines 43-52 for one pair of indices into train_names
Evaluate(clock, pos, names, p) ==
    LET t1   == names[p[1]]
        t2   == names[p[2]]
        gap  == Gap(pos[t1], pos[t2], PairLength(p[1], p[2]))
        near == near_crossing(pos[t1], pos[t2], CROSSINGS)
    IN  [tick |-> clock, i |-> p[1], j |-> p[2], t1 |-> t1, t2 |-> t2,
         gap |-> gap, near |-> near,
         warned |-> ShouldWarn(gap, near, SAFE_DISTANCE)]

\* lines 51-52: the printed line
WarningLine(c) ==
    [tick |-> c.tick, time |-> strftime(c.tick), t1 |-> c.t1, t2 |-> c.t2,
     gap |-> FormatGap(c.gap)]

Tick ==
    /\ pc = "loop"
    /\ LoopCondition(current_time, end_time)
    /\ LET pos   == Snapshot(current_time)
           names == TrainNames(current_time)
           prs   == Pairs(Len(names))
           evs   == [k \in 1..Len(prs) |-> Evaluate(current_time, pos, names, prs[k])]
           hits  == SelectSeq(evs, LAMBDA c : c.warned)
       IN  /\ positions' = pos
           /\ train_names' = names
           /\ checks' = evs
           /\ warnings' = warnings \o [k \in 1..Len(hits) |-> WarningLine(hits[k])]
    /\ current_time' = current_time + step
    /\ UNCHANGED <<trains, SAFE_DISTANCE, CROSSINGS, pc, error, end_time, completed>>

\* line 56, reached when the loop condition fails
Finish ==
    /\ pc = "loop"
    /\ ~LoopCondition(current_time, end_time)
    /\ completed' = completed + 1
    /\ pc' = "done"
    /\ UNCHANGED <<trains, SAFE_DISTANCE, CROSSINGS, error, current_time, end_time,
                   positions, train_names, checks, warnings>>

Next == Setup \/ Tick \/ Finish

----------------------------------------------------------------------------
(* Initial states *)

\* the state before line 18, for a given configuration
Start(ts, safe, cs) ==
    /\ trains = ts
    /\ SAFE_DISTANCE = safe
    /\ CROSSINGS = cs
    /\ pc = "setup"
    /\ error = NoError
    /\ current_time = 0
    /\ end_time = [num |-> 0, den |-> 1]
    /\ positions = <<>>
    /\ train_names = <<>>
    /\ checks = <<>>
    /\ warnings = <<>>
    /\ completed = 0

\* train.py:4-15
HardcodedTrains ==
    << [name |-> "A", departure |-> <<"0", "8", ":", "0", "0">>, speed |-> 80,
        distance |-> 240, cars |-> 8, car_length |-> 20],
       [name |-> "B", departure |-> <<"0", "8", ":", "3", "0">>, speed |-> 60,
        distance |-> 240, cars |-> 10, car_length |-> 25],
       [name |-> "C", departure |-> <<"0", "9", ":", "0", "0">>, speed |-> 100,
        distance |-> 240, cars |-> 6, car_length |-> 18],
       [name |-> "D", departure |-> <<"0", "9", ":", "1", "5">>, speed |-> 90,
        distance |-> 240, cars |-> 12, car_length |-> 22] >>

HardcodedSafeDistance == 100

HardcodedCrossings == <<60, 120, 180, 220>>

InitHardcoded == Start(HardcodedTrains, HardcodedSafeDistance, HardcodedCrossings)

SpecHardcoded == InitHardcoded /\ [][Next]_vars

----------------------------------------------------------------------------
(* Bounded configurations.  A configuration is a list of at most MaxTrains *)
(* train dicts, drawn from TrainPool and named by their place in the list, *)
(* a safe distance, and a list of at most MaxCrossings crossing positions. *)

MaxTrains == 3

MaxCrossings == 1

TrainNamePool == <<"A", "B", "C", "D", "E", "F">>

Descriptor(dep, speed, distance, cars) ==
    [departure |-> dep, speed |-> speed, distance |-> distance,
     cars |-> cars, car_length |-> 25]

\* well-formed trains: two departure minutes, two speeds, two lengths
ValidPool ==
    {Descriptor(dep, speed, 2, cars) :
        dep \in {<<"0", "8", ":", "0", "0">>, <<"0", "8", ":", "0", "1">>},
        speed \in {60, 120},
        cars \in {10, 20}}

\* trains that Setup is expected to refuse
InvalidPool ==
    { Descriptor(<<"0", "8", ":", "6", "0">>, 60, 2, 10),
      Descriptor(<<"0", "8", ":", "0", "0">>, 0, 2, 10),
      Descriptor(<<"0", "8", ":", "0", "0">>, -60, 2, 10),
      Descriptor(<<"0", "8", ":", "0", "0">>, 60, -1, 10),
      Descriptor(<<"0", "8", ":", "0", "0">>, -60, -1, 10) }

TrainPool == ValidPool \cup InvalidPool

TrainLists ==
    UNION {[1..n -> TrainPool] : n \in 1..MaxTrains}

Named(ts) ==
    [i \in 1..Len(ts) |-> ts[i] @@ [name |-> TrainNamePool[i]]]

CrossingKms == {0, 1}

CrossingLists ==
    {cs \in UNION {[1..n -> CrossingKms] : n \in 0..MaxCrossings} :
        \A k \in 1..(Len(cs) - 1) : cs[k] < cs[k + 1]}

SafeDistances == {250}

Init ==
    \E ts \in TrainLists, safe \in SafeDistances, cs \in CrossingLists :
        Start(Named(ts), safe, cs)

Spec == Init /\ [][Next]_vars

----------------------------------------------------------------------------
(* Vocabulary of the properties.  These read the state only; none of them  *)
(* uses the operators of the tick.                                         *)

Ran == pc \in {"loop", "done"}

\* at least one tick has been evaluated
Ticked == Ran /\ \E i \in 1..Len(trains) : current_time > trains[i].departure_time

\* the tick evaluated last
LastTick == current_time - step

TrainOf(name) == trains[CHOOSE i \in 1..Len(trains) : trains[i].name = name]

IndexOf(name) == CHOOSE i \in 1..Len(trains) : trains[i].name = name

\* both positions (units of 1/60 m) within 0.01 km of one crossing
SharedCrossing(p1, p2) ==
    \E k \in 1..Len(CROSSINGS) :
        /\ Abs(p1 - CROSSINGS[k] * KM) < TOLERANCE
        /\ Abs(p2 - CROSSINGS[k] * KM) < TOLERANCE

\* a warning line was printed for the pair of check c at its tick
Warned(c) ==
    \E w \in 1..Len(warnings) :
        /\ warnings[w].tick = c.tick
        /\ {warnings[w].t1, warnings[w].t2} = {c.t1, c.t2}

InvalidTrain(t) ==
    \/ t.speed <= 0
    \/ t.distance <= 0
    \/ strptime(t.departure) = BadTime

----------------------------------------------------------------------------
(* C1: at every tick, for every pair (t1, t2) of active trains, the gap    *)
(* used for the warning decision is |pos(t1) - pos(t2)| minus the sum of   *)
(* the lengths of those same two trains, also when only some of the trains *)
(* are active.                                                             *)
C1_GapUsesOwnLengths ==
    \A k \in 1..Len(checks) :
        LET c == checks[k]
        IN  c.gap = Abs(positions[c.t1] - positions[c.t2])
                      - (TrainOf(c.t1).length + TrainOf(c.t2).length)

(* C2: a configuration with a non-positive speed or distance or a          *)
(* malformed departure fails in setup with a ConfigError; no tick is       *)
(* evaluated and no warning is printed.                                    *)
C2_InvalidConfigRejected ==
    (\E i \in 1..Len(trains) : InvalidTrain(trains[i])) =>
        /\ pc \in {"setup", "error"}
        /\ pc = "error" => error.type = "ConfigError"
        /\ warnings = <<>>
        /\ checks = <<>>

(* C3: a pair of active trains that are both within 0.01 km of one         *)
(* crossing gets no warning at that tick, whatever its gap.                *)
C3_NoWarningNearCrossing ==
    \A k \in 1..Len(checks) :
        LET c == checks[k]
        IN  SharedCrossing(positions[c.t1], positions[c.t2]) => ~Warned(c)

C3_Witness ==
    \E k \in 1..Len(checks) :
        LET c == checks[k]
        IN  /\ SharedCrossing(positions[c.t1], positions[c.t2])
            /\ c.gap < 0
            /\ ~Warned(c)

(* C4: for a pair of active trains not near a crossing, a warning is       *)
(* printed at a tick if and only if the gap in metres is strictly less     *)
(* than SAFE_DISTANCE; a gap equal to SAFE_DISTANCE does not warn.         *)
C4_StrictThreshold ==
    \A k \in 1..Len(checks) :
        LET c == checks[k]
        IN  ~SharedCrossing(positions[c.t1], positions[c.t2]) =>
                (Warned(c) <=> c.gap < SAFE_DISTANCE * METRE)

C4_Witness ==
    \E k \in 1..Len(checks) :
        LET c == checks[k]
        IN  /\ ~SharedCrossing(positions[c.t1], positions[c.t2])
            /\ c.gap = SAFE_DISTANCE * METRE
            /\ ~Warned(c)

(* Two trains that leave together at the same speed *)
Twins ==
    /\ Ran
    /\ Len(trains) = 2
    /\ trains[1].departure_time = trains[2].departure_time
    /\ trains[1].speed = trains[2].speed

(* C5 as stated: for two trains leaving position 0 together at the same    *)
(* speed, at every tick with both active the gap is -(sum of the lengths)  *)
(* and a warning is printed, except only at tick 0 when a crossing is      *)
(* within tolerance of position 0.                                         *)
C5_WarnsExceptAtTickZero ==
    Twins =>
        \A k \in 1..Len(checks) :
            LET c == checks[k]
            IN  /\ c.gap = -(trains[1].length + trains[2].length)
                /\ \/ Warned(c)
                   \/ /\ c.tick = trains[1].departure_time
                      /\ SharedCrossing(0, 0)

(* C5 amended: for two such trains, at every tick with both active the gap *)
(* is -(sum of the lengths), and a warning is printed exactly at the ticks *)
(* where no crossing is within tolerance of the trains' common position.   *)
C5_WarnsExceptAtCrossings ==
    Twins =>
        \A k \in 1..Len(checks) :
            LET c == checks[k]
            IN  /\ c.gap = -(trains[1].length + trains[2].length)
                /\ positions[c.t1] = positions[c.t2]
                /\ Warned(c) <=> ~SharedCrossing(positions[c.t1], positions[c.t1])

C5_Witness ==
    /\ Twins
    /\ \E k \in 1..Len(checks) :
          /\ checks[k].tick > trains[1].departure_time
          /\ SharedCrossing(positions[checks[k].t1], positions[checks[k].t2])
          /\ ~Warned(checks[k])

(* C6: the warnings are in tick order and, within a tick, in the order of  *)
(* the pairs (i, j), i < j, over the active trains in configuration order; *)
(* every unordered pair of active trains is examined exactly once a tick.  *)
PairBefore(a, b) ==
    \/ IndexOf(a.t1) < IndexOf(b.t1)
    \/ IndexOf(a.t1) = IndexOf(b.t1) /\ IndexOf(a.t2) < IndexOf(b.t2)

C6_WarningOrder ==
    /\ \A a, b \in 1..Len(warnings) :
          a < b => \/ warnings[a].tick < warnings[b].tick
                   \/ /\ warnings[a].tick = warnings[b].tick
                      /\ PairBefore(warnings[a], warnings[b])
    /\ \A a \in 1..Len(warnings) :
          IndexOf(warnings[a].t1) < IndexOf(warnings[a].t2)
    /\ \A a, b \in 1..Len(train_names) :
          a < b => IndexOf(train_names[a]) < IndexOf(train_names[b])
    /\ \A a, b \in 1..Len(train_names) :
          a < b => Cardinality({k \in 1..Len(checks) :
                        {checks[k].t1, checks[k].t2}
                            = {train_names[a], train_names[b]}}) = 1
    /\ \A k \in 1..Len(checks) :
          /\ IndexOf(checks[k].t1) < IndexOf(checks[k].t2)
          /\ {checks[k].t1, checks[k].t2} \subseteq DOMAIN positions
    /\ \A a, b \in 1..Len(checks) : a < b => PairBefore(checks[a], checks[b])

C6_Witness ==
    \E a, b, c \in 1..Len(warnings) :
        /\ a < b /\ b < c
        /\ warnings[a].tick < warnings[b].tick
        /\ warnings[b].tick = warnings[c].tick

(* the clock is at or before the latest arrival / at or after the earliest *)
(* departure                                                              *)
BeforeEnd(clock) ==
    \E i \in 1..Len(trains) :
        clock * trains[i].arrival_time.den <= trains[i].arrival_time.num

AfterStart(clock) ==
    \E i \in 1..Len(trains) : clock >= trains[i].departure_time

(* what holds of the clock, the warnings and the completion line in every *)
(* state of a run whose setup succeeded                                   *)
C7_ClockInvariant ==
    /\ pc \in {"setup", "loop"} => completed = 0
    /\ pc = "done" =>
          /\ completed = 1
          /\ ~BeforeEnd(current_time)
          /\ AfterStart(current_time)
          /\ Ticked => BeforeEnd(LastTick)
    /\ Ran => \A k \in 1..Len(warnings) :
                 /\ AfterStart(warnings[k].tick)
                 /\ BeforeEnd(warnings[k].tick)
                 /\ warnings[k].tick < current_time
    /\ Ran => \A k \in 1..Len(checks) :
                 /\ checks[k].tick = LastTick
                 /\ AfterStart(LastTick)
                 /\ BeforeEnd(LastTick)

(* what every step of such a run does to them *)
C7_ClockStep ==
    /\ (pc = "setup" /\ pc' = "loop") =>
          /\ AfterStart(current_time)'
          /\ \A i \in 1..Len(trains') : current_time' <= trains'[i].departure_time
    /\ (pc = "loop" /\ BeforeEnd(current_time)) =>
          /\ pc' = "loop"
          /\ current_time' = current_time + step
          /\ completed' = completed
    /\ (pc = "loop" /\ ~BeforeEnd(current_time)) =>
          /\ pc' = "done"
          /\ completed' = completed + 1
          /\ warnings' = warnings
          /\ current_time' = current_time
    /\ warnings' # warnings =>
          /\ pc' = "loop"
          /\ current_time' = current_time + step
    /\ completed >= 1 => warnings' = warnings /\ completed' = completed

(* C7: the clock starts at the earliest departure, advances by exactly one *)
(* step per tick, every evaluated tick lies between the earliest departure *)
(* and the latest arrival, the loop ends as soon as the clock is past the  *)
(* latest arrival, the completion line is then printed exactly once and no *)
(* warning follows it; printing a warning does not end the run.            *)
C7_ClockAndCompletion == [](C7_ClockInvariant) /\ [][C7_ClockStep]_vars

C7_Witness ==
    /\ pc = "done"
    /\ completed = 1
    /\ Len(warnings) >= 2
    /\ LastTick * end_time.den = end_time.num

InWindow(t, clock) ==
    /\ t.departure_time <= clock
    /\ clock * t.arrival_time.den <= t.arrival_time.num

(* membership and positions of the snapshot, without the range *)
C9_SnapshotExact ==
    Ticked =>
        /\ DOMAIN positions =
              {trains[i].name : i \in {i \in 1..Len(trains) : InWindow(trains[i], LastTick)}}
        /\ \A n \in DOMAIN positions :
              60 * positions[n] = TrainOf(n).speed * (LastTick - TrainOf(n).departure_time) * KM
        /\ \A k \in 1..Len(checks) :
              /\ InWindow(TrainOf(checks[k].t1), LastTick)
              /\ InWindow(TrainOf(checks[k].t2), LastTick)

(* C9: the snapshot of a tick holds exactly the trains with                *)
(* departure_time <= clock <= arrival_time, each at speed * elapsed hours; *)
(* every recorded position lies in [0, distance] and only trains in the    *)
(* snapshot take part in a pair.                                           *)
C9_Snapshot ==
    /\ C9_SnapshotExact
    /\ Ticked => \A n \in DOMAIN positions :
                    /\ 0 <= positions[n]
                    /\ positions[n] <= TrainOf(n).distance * KM

(* a printed warning line: time of day, pair, gap in tenths of a metre *)
Line(h, m, a, b, tenths) ==
    [tick |-> 60 * h + m, time |-> <<h, m>>, t1 |-> a, t2 |-> b, gap |-> tenths]

HardcodedOutput ==
    << Line(9, 45, "B", "C", -3580),
       Line(10, 44, "B", "D", -140),
       Line(10, 45, "B", "D", -5140),
       Line(10, 46, "B", "D", -140) >>

(* C10: the hardcoded configuration runs the ticks 08:00 to 12:30 and      *)
(* prints exactly four warnings: B and C at 09:45 (-358.0 m), B and D at   *)
(* 10:44 (-14.0 m), 10:45 (-514.0 m) and 10:46 (-14.0 m); no pair with a   *)
(* gap below the threshold is exempted by a crossing.                      *)
C10_HardcodedRun ==
    /\ Len(warnings) <= 4
    /\ warnings = SubSeq(HardcodedOutput, 1, Len(warnings))
    /\ pc = "loop" => current_time \in (8 * 60)..(12 * 60 + 31)
    /\ pc = "loop" /\ train_names = <<>> => current_time = 8 * 60
    /\ pc = "loop" /\ train_names # <<>> => checks = <<>> \/ checks[1].tick = current_time - step
    /\ pc = "loop" /\ current_time > 9 * 60 + 45 => Len(warnings) >= 1
    /\ pc = "loop" /\ current_time > 10 * 60 + 46 => Len(warnings) = 4
    /\ pc = "done" =>
          /\ current_time = 12 * 60 + 31
          /\ warnings = HardcodedOutput
    /\ \A k \in 1..Len(checks) :
          ~ /\ SharedCrossing(positions[checks[k].t1], positions[checks[k].t2])
            /\ checks[k].gap < SAFE_DISTANCE * METRE

C10_Witness ==
    /\ pc = "done"
    /\ completed = 1
    /\ Len(warnings) = 4
    /\ LastTick = 12 * 60 + 30

====
